---- MODULE Spec2Model ----
(***************************************************************************)
(* Model of the projection engine of src/main.py: the amortization         *)
(* schedule of calculate_mortgage_details and the ownership-vs-renting     *)
(* projection of calculate_buy_vs_rent, and of the Dash callbacks that     *)
(* drive them (sync_values, update_month_options, update_plots).           *)
(*                                                                         *)
(* Numbers.  The program computes in Python floats and numpy float64       *)
(* arrays.  The model computes the same expressions in exact rational      *)
(* arithmetic: a number is a pair <<n, d>> in lowest terms with d > 0.     *)
(* Rounding error is therefore not modelled; what is modelled besides the  *)
(* values are the outcomes of the arithmetic: Python's ZeroDivisionError   *)
(* on a float division by zero, the IndexError of writing element 0 of an  *)
(* empty array, and numpy's nan/inf (no exception) on an array division.   *)
(* TLC's integers are 32 bits wide, so the inputs are drawn from sets      *)
(* whose compounding factors are small integers (a monthly rate of 1 is    *)
(* an annual rate of 1200 percent) and Fits keeps the products in range.   *)
(*                                                                         *)
(* Arrays.  A numpy array a of length n is the sequence s of length n with *)
(* a[i] = s[i+1]; At(s, i) reads a[i].                                     *)
(***************************************************************************)
EXTENDS Integers, Sequences, FiniteSets, TLC

VARIABLES
    fn,     \* the function or callback that ran last, "none" between calls
    args,   \* its arguments
    res,    \* its result
    now,    \* the reading of the clock, pd.Timestamp.now()
    prev,   \* history: the arguments and the result of the call before
    ui,     \* the properties of the components of the layout
    queue   \* the callbacks the components' changes have triggered, oldest first

vars == <<fn, args, res, now, prev, ui, queue>>

(***************************************************************************)
(* Bounds of the model.                                                    *)
(***************************************************************************)
MaxYears == 2
MaxTerm == 2
MaxBits == 28

(***************************************************************************)
(* Exact arithmetic standing for the float arithmetic of the program.      *)
(***************************************************************************)
Abs(x) == IF x < 0 THEN -x ELSE x

Max(a, b) == IF a >= b THEN a ELSE b

Min(a, b) == IF a <= b THEN a ELSE b

RECURSIVE GCD(_, _)
GCD(a, b) == IF b = 0 THEN a ELSE GCD(b, a % b)

Rat(n, d) ==
    LET s == IF d < 0 THEN -1 ELSE 1
        g == GCD(Abs(n), Abs(d))
    IN  <<(s * n) \div g, (s * d) \div g>>

RInt(n) == <<n, 1>>

Zero == RInt(0)

One == RInt(1)

RNeg(x) == <<-x[1], x[2]>>

RAdd(x, y) ==
    LET g == GCD(x[2], y[2])
    IN  Rat(x[1] * (y[2] \div g) + y[1] * (x[2] \div g), (x[2] \div g) * y[2])

RSub(x, y) == RAdd(x, RNeg(y))

RMul(x, y) ==
    LET g1 == GCD(Abs(x[1]), y[2])
        g2 == GCD(Abs(y[1]), x[2])
    IN  <<(x[1] \div g1) * (y[1] \div g2), (x[2] \div g2) * (y[2] \div g1)>>

RInv(x) == Rat(x[2], x[1])

RDiv(x, y) == RMul(x, RInv(y))

RLt(x, y) == RSub(x, y)[1] < 0

RLe(x, y) == RSub(x, y)[1] <= 0

RMax(x, y) == IF RLt(x, y) THEN y ELSE x

RECURSIVE RPowNat(_, _)
RPowNat(x, k) ==
    IF k = 0 THEN One
    ELSE IF k % 2 = 0 THEN LET h == RPowNat(x, k \div 2) IN RMul(h, h)
    ELSE RMul(x, RPowNat(x, k - 1))

(* x ** k for an integer k: a negative k is the power of the reciprocal. *)
RPow(x, k) == IF k >= 0 THEN RPowNat(x, k) ELSE RPowNat(RInv(x), -k)

At(s, i) == s[i + 1]

(* np.zeros(len) and np.arange(n): the length of an array of a negative size is 0. *)
ArrayLen(n) == IF n < 0 THEN 0 ELSE n

(***************************************************************************)
(* The fractional power base ** (months / 12) of lines 108, 114 and 132.   *)
(* The model draws the annual growth rates from the values whose twelfth   *)
(* root is an integer, so the power is Root12(base) ** months exactly.     *)
(***************************************************************************)
Root12(base) == RInt(CHOOSE k \in 0..2 : RPowNat(RInt(k), 12) = base)

FracPow(base, months) == RPowNat(Root12(base), months)

(* np.cumsum of an array. *)
RECURSIVE CumSumLoop(_, _)
CumSumLoop(s, acc) ==
    IF Len(acc) >= Len(s) THEN acc
    ELSE LET i == Len(acc) + 1
         IN  CumSumLoop(s, Append(acc, IF i = 1 THEN s[1] ELSE RAdd(acc[i - 1], s[i])))

CumSum(s) == CumSumLoop(s, << >>)

Raised(error) == [outcome |-> error]

(***************************************************************************)
(* calculate_mortgage_details.  The monthly payment is                     *)
(*   loan * (r * (1 + r)**n) / ((1 + r)**n - 1)                            *)
(* in Python floats, which raise ZeroDivisionError when the divisor is     *)
(* zero (r = 0, n = 0, or (1 + r)**n = 1) and when 0.0 is raised to a      *)
(* negative power.                                                         *)
(***************************************************************************)
md_payment_raises(monthly_rate, n_payments) ==
    LET base == RAdd(One, monthly_rate)
    IN  \/ base = Zero /\ n_payments < 0
        \/ RPow(base, n_payments) = One

md_monthly_payment(loan_amount, monthly_rate, n_payments) ==
    LET pw == RPow(RAdd(One, monthly_rate), n_payments)
    IN  RDiv(RMul(loan_amount, RMul(monthly_rate, pw)), RSub(pw, One))

month_interest(prev_balance, monthly_rate) == RMul(prev_balance, monthly_rate)

month_principal(monthly_payment, interest) == RSub(monthly_payment, interest)

(* A faulty variant of md_next_balance: the principal is added to the balance. *)
md_next_balance_added(prev_balance, principal) == RAdd(prev_balance, principal)

md_next_balance(prev_balance, principal) == RSub(prev_balance, principal)

(* The loop of lines 245-250; s holds the arrays filled up to index i - 1. *)
RECURSIVE md_loop(_, _, _, _)
md_loop(len, monthly_rate, monthly_payment, s) ==
    IF Len(s.balance) >= len THEN s
    ELSE LET i == Len(s.balance)
             mi == month_interest(At(s.balance, i - 1), monthly_rate)
             mp == month_principal(monthly_payment, mi)
         IN  md_loop(len, monthly_rate, monthly_payment,
                 [interest_paid |-> Append(s.interest_paid, RAdd(At(s.interest_paid, i - 1), mi)),
                  principal_paid |-> Append(s.principal_paid, RAdd(At(s.principal_paid, i - 1), mp)),
                  balance |-> Append(s.balance, md_next_balance(At(s.balance, i - 1), mp))])

calculate_mortgage_details(loan_amount, annual_rate, term_years) ==
    LET monthly_rate == Rat(annual_rate, 1200)
        n_payments == term_years * 12
        len == ArrayLen(n_payments + 1)
    IN  IF md_payment_raises(monthly_rate, n_payments) THEN Raised("ZeroDivisionError")
        ELSE IF len = 0 THEN Raised("IndexError")
        ELSE LET monthly_payment == md_monthly_payment(RInt(loan_amount), monthly_rate, n_payments)
                 sched == md_loop(len, monthly_rate, monthly_payment,
                                  [balance |-> <<RInt(loan_amount)>>,
                                   interest_paid |-> <<Zero>>,
                                   principal_paid |-> <<Zero>>])
             IN  [outcome |-> "returned",
                  monthly_payment |-> monthly_payment,
                  balance |-> sched.balance,
                  interest_paid |-> sched.interest_paid,
                  principal_paid |-> sched.principal_paid,
                  months |-> len]

(***************************************************************************)
(* calculate_buy_vs_rent.                                                  *)
(***************************************************************************)
bvr_payment_raises(monthly_rate, n_payments) ==
    LET base == RAdd(One, monthly_rate)
    IN  \/ base = Zero /\ n_payments < 0
        \/ RPow(base, n_payments) = One

(* A faulty variant of bvr_monthly_payment: the payment covers the interest only. *)
bvr_monthly_payment_interest_only(loan_amount, monthly_rate, n_payments) ==
    RMul(loan_amount, monthly_rate)

bvr_monthly_payment(loan_amount, monthly_rate, n_payments) ==
    LET pw == RPow(RAdd(One, monthly_rate), n_payments)
    IN  RDiv(RMul(loan_amount, RMul(monthly_rate, pw)), RSub(pw, One))

interest(prev_balance, monthly_rate) == RMul(prev_balance, monthly_rate)

principal(monthly_payment, int) == RSub(monthly_payment, int)

bvr_next_balance(prev_balance, prin) == RSub(prev_balance, prin)

(* The loop of lines 94-98; s holds the arrays filled up to index i - 1. *)
RECURSIVE bvr_loop(_, _, _, _)
bvr_loop(len, monthly_rate, monthly_payment, s) ==
    IF Len(s.balance) >= len THEN s
    ELSE LET i == Len(s.balance)
             int == interest(At(s.balance, i - 1), monthly_rate)
             prin == principal(monthly_payment, int)
         IN  bvr_loop(len, monthly_rate, monthly_payment,
                 [balance |-> Append(s.balance, bvr_next_balance(At(s.balance, i - 1), prin)),
                  interest_paid |-> Append(s.interest_paid, RAdd(At(s.interest_paid, i - 1), int))])

(* A faulty variant of pmi_due: the balance itself is compared with 0.8. *)
pmi_due_undivided(bal, home_price) == RLt(Rat(8, 10), bal)

(* A faulty variant of pmi_due: the comparison is turned around. *)
pmi_due_below(bal, home_price) ==
    IF home_price = Zero THEN RLt(bal, Zero)
    ELSE RLt(RDiv(bal, home_price), Rat(8, 10))

(* balance / home_price > 0.8 on a numpy array: a zero home_price gives
   nan (0/0), inf or -inf without an exception, and nan > 0.8 is False. *)
pmi_due(bal, home_price) ==
    IF home_price = Zero THEN RLt(Zero, bal)
    ELSE RLt(Rat(8, 10), RDiv(bal, home_price))

pmi_payment(bal, home_price, pmi_monthly_rate) ==
    IF pmi_due(bal, home_price) THEN RMul(bal, pmi_monthly_rate) ELSE Zero

standard_deduction(filing_status) == IF filing_status = "individual" THEN 13850 ELSE 27700

(* A faulty variant of renting_net_worth_at: the rent paid is left out. *)
renting_net_worth_at_without_rent(value, cum_rent, cum_renters_insurance) ==
    RSub(value, cum_renters_insurance)

(* One element of renting_net_worth (lines 169-171). *)
renting_net_worth_at(value, cum_rent, cum_renters_insurance) ==
    RSub(RSub(value, cum_rent), cum_renters_insurance)

(* A faulty variant of invest_step: a negative contribution is floored at zero. *)
invest_step_floored(prev_value, investment_return, contribution) ==
    RAdd(RMul(prev_value, RAdd(One, RDiv(investment_return, RInt(12)))),
         RMax(Zero, contribution))

(* investment_value[i] from investment_value[i-1] and monthly_investment[i-1]. *)
invest_step(prev_value, investment_return, contribution) ==
    RAdd(RMul(prev_value, RAdd(One, RDiv(investment_return, RInt(12)))), contribution)

(* The loop of lines 150-152. *)
RECURSIVE invest_loop(_, _, _, _)
invest_loop(len, investment_return, monthly_investment, investment_value) ==
    IF Len(investment_value) >= len THEN investment_value
    ELSE LET i == Len(investment_value)
         IN  invest_loop(len, investment_return, monthly_investment,
                 Append(investment_value,
                        invest_step(At(investment_value, i - 1), investment_return,
                                    At(monthly_investment, i - 1))))

calculate_buy_vs_rent(a) ==
    LET home_price == RInt(a.home_price)
        monthly_rent == RInt(a.monthly_rent)
        down_payment == RMul(home_price, Rat(a.down_payment_pct, 100))
        mortgage_rate == Rat(a.mortgage_rate, 100)
        home_appreciation == Rat(a.home_appreciation, 100)
        rent_appreciation == Rat(a.rent_appreciation, 100)
        investment_return == Rat(a.investment_return, 100)
        inflation == Rat(a.inflation, 100)
        len == ArrayLen(a.years * 12 + 1)
        loan_amount == RSub(home_price, down_payment)
        buying_closing_costs == RMul(home_price, Rat(a.buying_closing_cost_pct, 100))
        initial_buy_costs == RAdd(down_payment, buying_closing_costs)
        monthly_rate == RDiv(mortgage_rate, RInt(12))
        n_payments == a.mortgage_term * 12
    IN  IF bvr_payment_raises(monthly_rate, n_payments) THEN Raised("ZeroDivisionError")
        ELSE IF len = 0 THEN Raised("IndexError")
        ELSE
        LET monthly_payment == bvr_monthly_payment(loan_amount, monthly_rate, n_payments)
            sched == bvr_loop(len, monthly_rate, monthly_payment,
                              [balance |-> <<loan_amount>>, interest_paid |-> <<Zero>>])
            balance == sched.balance
            interest_paid == sched.interest_paid
            pmi_monthly_rate == Rat(a.pmi_rate, 1200)
            pmi_payments ==
                IF a.down_payment_pct < 20
                THEN [t \in 1..len |-> pmi_payment(balance[t], home_price, pmi_monthly_rate)]
                ELSE [t \in 1..len |-> Zero]
            home_values ==
                [t \in 1..len |-> RMul(home_price, FracPow(RAdd(One, home_appreciation), t - 1))]
            property_tax ==
                [t \in 1..len |-> RMul(home_values[t], Rat(a.property_tax_rate, 1200))]
            homeowners_insurance ==
                [t \in 1..len |-> RMul(home_values[t], Rat(a.homeowners_insurance_pct, 1200))]
            maintenance ==
                [t \in 1..len |-> RMul(home_values[t], Rat(a.maintenance_pct, 1200))]
            utilities ==
                [t \in 1..len |-> RMul(RInt(a.extra_utilities), FracPow(RAdd(One, inflation), t - 1))]
            hoa == [t \in 1..len |-> RInt(a.hoa_fees)]
            cum_property_tax == CumSum(property_tax)
            itemized_deductions ==
                [t \in 1..len |->
                    RAdd(RAdd(RAdd(interest_paid[t], cum_property_tax[t]),
                              RMul(hoa[t], Rat(a.hoa_tax_deductible_pct, 100))),
                         RInt(a.other_itemized_deductions))]
            tax_savings ==
                [t \in 1..len |->
                    RMul(RMax(Zero, RSub(itemized_deductions[t],
                                         RInt(standard_deduction(a.filing_status)))),
                         Rat(a.marginal_tax_rate, 100))]
            security_deposit == RMul(monthly_rent, RInt(a.security_deposit_months))
            broker_fee == RMul(RMul(monthly_rent, RInt(12)), Rat(a.rental_broker_fee_pct, 100))
            initial_rent_costs == RAdd(security_deposit, broker_fee)
            monthly_rents ==
                [t \in 1..len |-> RMul(monthly_rent, FracPow(RAdd(One, rent_appreciation), t - 1))]
            renters_insurance ==
                RMul(RMul(monthly_rent, RInt(12)), Rat(a.renters_insurance_pct, 1200))
            investment_base == RSub(initial_buy_costs, initial_rent_costs)
            monthly_investment ==
                [t \in 1..len |->
                    RSub(RSub(RAdd(RAdd(RAdd(RAdd(RAdd(RAdd(monthly_payment, pmi_payments[t]),
                                                       property_tax[t]),
                                                  homeowners_insurance[t]),
                                             maintenance[t]),
                                        utilities[t]),
                                   hoa[t]),
                              monthly_rents[t]),
                         renters_insurance)]
            investment_value ==
                invest_loop(len, investment_return, monthly_investment, <<investment_base>>)
            final_selling_costs ==
                [t \in 1..len |-> RMul(home_values[t], Rat(a.selling_closing_cost_pct, 100))]
            cum_pmi == CumSum(pmi_payments)
            cum_insurance == CumSum(homeowners_insurance)
            cum_maintenance == CumSum(maintenance)
            cum_utilities == CumSum(utilities)
            cum_hoa == CumSum(hoa)
            cum_rents == CumSum(monthly_rents)
            buying_net_worth ==
                [t \in 1..len |->
                    RSub(RAdd(RSub(RSub(RSub(RSub(RSub(RSub(RSub(home_values[t], balance[t]),
                                                            cum_pmi[t]),
                                                       cum_property_tax[t]),
                                                  cum_insurance[t]),
                                             cum_maintenance[t]),
                                        cum_utilities[t]),
                                   cum_hoa[t]),
                              tax_savings[t]),
                         final_selling_costs[t])]
            (* np.cumsum of the scalar renters_insurance is a one-element array,
               which broadcasts as a constant. *)
            renting_net_worth ==
                [t \in 1..len |->
                    renting_net_worth_at(investment_value[t], cum_rents[t], renters_insurance)]
        IN  [outcome |-> "returned",
             months |-> len,
             loan_amount |-> loan_amount,
             down_payment |-> down_payment,
             initial_buy_costs |-> initial_buy_costs,
             initial_rent_costs |-> initial_rent_costs,
             monthly_payment |-> monthly_payment,
             balance |-> balance,
             interest_paid |-> interest_paid,
             pmi_payments |-> pmi_payments,
             home_values |-> home_values,
             property_tax |-> property_tax,
             homeowners_insurance |-> homeowners_insurance,
             maintenance |-> maintenance,
             utilities |-> utilities,
             hoa |-> hoa,
             tax_savings |-> tax_savings,
             monthly_rents |-> monthly_rents,
             renters_insurance |-> renters_insurance,
             monthly_investment |-> monthly_investment,
             investment_value |-> investment_value,
             buying_net_worth |-> buying_net_worth,
             renting_net_worth |-> renting_net_worth,
             advantage |-> [t \in 1..len |-> RSub(buying_net_worth[t], renting_net_worth[t])]]

(***************************************************************************)
(* The figure calculate_buy_vs_rent returns, lines 173-220: the three net  *)
(* worth series over the time axis.  Every element of the axis is the      *)
(* clock's reading shifted by the period's months; <<t, m>> is the reading *)
(* t shifted by m months.  The clock is read once per call here: it does   *)
(* not advance while the axis is built.                                    *)
(***************************************************************************)
dates(clock, months) == [i \in 1..months |-> <<clock, i - 1>>]

buy_vs_rent_figure(a, clock) ==
    LET r == calculate_buy_vs_rent(a)
    IN  IF r.outcome = "returned" THEN r @@ [dates |-> dates(clock, r.months)] ELSE r

(***************************************************************************)
(* The amortization inside calculate_buy_vs_rent, lines 66-98, for inputs  *)
(* that need not be whole numbers: update_plots passes the down payment as *)
(* down_payment / home_price * 100.  Nothing after line 98 raises for a    *)
(* home price that is not zero, so its outcome is the outcome of the call. *)
(***************************************************************************)
bvr_amortization(home_price, down_payment_pct, mortgage_rate_pct, mortgage_term, years) ==
    LET down_payment == RMul(home_price, RDiv(down_payment_pct, RInt(100)))
        mortgage_rate == RDiv(mortgage_rate_pct, RInt(100))
        len == ArrayLen(years * 12 + 1)
        loan_amount == RSub(home_price, down_payment)
        monthly_rate == RDiv(mortgage_rate, RInt(12))
        n_payments == mortgage_term * 12
    IN  IF bvr_payment_raises(monthly_rate, n_payments) THEN Raised("ZeroDivisionError")
        ELSE IF len = 0 THEN Raised("IndexError")
        ELSE LET monthly_payment == bvr_monthly_payment(loan_amount, monthly_rate, n_payments)
                 sched == bvr_loop(len, monthly_rate, monthly_payment,
                                   [balance |-> <<loan_amount>>, interest_paid |-> <<Zero>>])
             IN  [outcome |-> "returned",
                  months |-> len,
                  loan_amount |-> loan_amount,
                  monthly_payment |-> monthly_payment,
                  balance |-> sched.balance,
                  interest_paid |-> sched.interest_paid]

(***************************************************************************)
(* The values of the components.  A component without a value (an emptied  *)
(* input, a cleared dropdown) holds None; the number n is held as Num(n).  *)
(***************************************************************************)
None == << >>

Num(n) == <<n>>

(* A faulty variant of truthy: only None is false. *)
truthy_unless_none(v) == v # None

(* Python's truth value of a component's value: None and 0 are false. *)
truthy(v) == v # None /\ v[1] # 0

all(values) == \A k \in DOMAIN values : truthy(values[k])

(***************************************************************************)
(* calculate_monthly_costs, lines 329-350.  The arrays are numpy arrays:   *)
(* an index from -len to len - 1 is read (a negative one from the end),    *)
(* any other raises IndexError; 0.0 / 0.0 is nan without an exception.     *)
(***************************************************************************)
NaN == <<0, 0>>

InRange(len, index) == -len <= index /\ index < len

Item(s, index) == IF index < 0 THEN At(s, index + Len(s)) ELSE At(s, index)

calculate_monthly_costs(mortgage_details, home_price, selected_month) ==
    LET len == Len(mortgage_details.balance)
    IN  IF ~InRange(len, 1) THEN Raised("IndexError")
        ELSE IF ~InRange(len, selected_month) THEN Raised("IndexError")
        ELSE LET first_interest == Item(mortgage_details.interest_paid, 1)
                 first_balance == Item(mortgage_details.balance, 0)
                 monthly_rate ==
                     IF first_balance = Zero THEN NaN ELSE RDiv(first_interest, first_balance)
                 current_balance == Item(mortgage_details.balance, selected_month)
                 int == IF monthly_rate = NaN THEN NaN ELSE RMul(current_balance, monthly_rate)
                 prin == IF int = NaN THEN NaN ELSE RSub(mortgage_details.monthly_payment, int)
             IN  [outcome |-> "returned",
                  Principal |-> prin,
                  Interest |-> int,
                  PropertyTax |-> Rat(home_price * 11, 12000),
                  Insurance |-> Rat(home_price * 5, 12000)]

(***************************************************************************)
(* update_plots, lines 726-764.  i holds the values of the eleven inputs   *)
(* of the callback.  The result names the functions that were called; of   *)
(* the comparison figure it keeps the amortization, of the total cost      *)
(* figure the schedule it plots, of the breakdown figure the four costs.   *)
(***************************************************************************)
TenInputs ==
    {"home_price", "monthly_rent", "years", "down_payment", "mortgage_rate",
     "home_appreciation", "rent_appreciation", "investment_return", "closing_costs",
     "mortgage_term"}

update_plots(i) ==
    IF ~all([k \in TenInputs |-> i[k]])
    THEN [outcome |-> "empty", called |-> {}]
    ELSE
    LET selected_month == IF truthy(i.selected_month) THEN i.selected_month[1] ELSE 0
        home_price == i.home_price[1]
        down_payment == i.down_payment[1]
        loan_amount == home_price - down_payment
        mortgage_details ==
            calculate_mortgage_details(loan_amount, i.mortgage_rate[1], i.mortgage_term[1])
    IN  IF mortgage_details.outcome # "returned"
        THEN [outcome |-> mortgage_details.outcome, called |-> {"calculate_mortgage_details"}]
        ELSE IF home_price = 0
        THEN [outcome |-> "ZeroDivisionError", called |-> {"calculate_mortgage_details"}]
        ELSE
        LET comparison ==
                bvr_amortization(RInt(home_price),
                                 RMul(Rat(down_payment, home_price), RInt(100)),
                                 RInt(i.mortgage_rate[1]), i.mortgage_term[1], i.years[1])
            called == {"calculate_mortgage_details", "calculate_buy_vs_rent"}
        IN  IF comparison.outcome # "returned"
            THEN [outcome |-> comparison.outcome, called |-> called]
            ELSE
            LET costs == calculate_monthly_costs(mortgage_details, home_price, selected_month)
            IN  IF costs.outcome # "returned"
                THEN [outcome |-> costs.outcome, called |-> called,
                      selected_month |-> selected_month, months |-> mortgage_details.months]
                ELSE [outcome |-> "figures", called |-> called,
                      selected_month |-> selected_month, months |-> mortgage_details.months,
                      comparison |-> comparison,
                      mortgage_details |-> mortgage_details,
                      costs |-> costs]

(***************************************************************************)
(* The inputs the model draws.  A monthly factor of 2 is an annual rate of *)
(* 1200 percent for the monthly-compounded rates and of 409500 percent for *)
(* the rates compounded by a fractional power.                             *)
(***************************************************************************)
LoanAmounts == {-9, 0, 9, 18}

AnnualRates == {-2400, -1200, 0, 600, 1200, 2400}

HomePrices == {0, 10}

MonthlyRents == {1, 3}

DownPaymentPcts == {10, 20, 150}

MortgageRates == {-1200, 0, 1200}

GrowthRates == {0, 409500}

InvestmentReturns == {0, 1200}

Costs ==
    { [pmi_rate |-> 0, inflation |-> 0, property_tax_rate |-> 0, marginal_tax_rate |-> 0,
       filing_status |-> "individual", other_itemized_deductions |-> 0,
       buying_closing_cost_pct |-> 0, selling_closing_cost_pct |-> 0,
       maintenance_pct |-> 0, homeowners_insurance_pct |-> 0, extra_utilities |-> 0,
       hoa_fees |-> 0, hoa_tax_deductible_pct |-> 0, security_deposit_months |-> 0,
       rental_broker_fee_pct |-> 0, renters_insurance_pct |-> 0],
      [pmi_rate |-> 600, inflation |-> 0, property_tax_rate |-> 1200, marginal_tax_rate |-> 50,
       filing_status |-> "individual", other_itemized_deductions |-> 13860,
       buying_closing_cost_pct |-> 10, selling_closing_cost_pct |-> 10,
       maintenance_pct |-> 1200, homeowners_insurance_pct |-> 600, extra_utilities |-> 2,
       hoa_fees |-> 1, hoa_tax_deductible_pct |-> 50, security_deposit_months |-> 1,
       rental_broker_fee_pct |-> 50, renters_insurance_pct |-> 1200],
      [pmi_rate |-> 1200, inflation |-> 409500, property_tax_rate |-> 600, marginal_tax_rate |-> 50,
       filing_status |-> "joint", other_itemized_deductions |-> 13860,
       buying_closing_cost_pct |-> 50, selling_closing_cost_pct |-> 0,
       maintenance_pct |-> 0, homeowners_insurance_pct |-> 1200, extra_utilities |-> 1,
       hoa_fees |-> 0, hoa_tax_deductible_pct |-> 0, security_deposit_months |-> 2,
       rental_broker_fee_pct |-> 0, renters_insurance_pct |-> 0] }

(***************************************************************************)
(* Representable inputs: the bits the compounding factors of a run need.   *)
(***************************************************************************)
Bits(x) ==
    LET m == Max(Abs(x[1]), x[2])
    IN  IF m <= 1 THEN 0 ELSE IF m = 2 THEN 1 ELSE IF m <= 4 THEN 2 ELSE 32

MonthlyFactor(annual_pct) == RAdd(One, Rat(annual_pct, 1200))

FitsMortgage(annual_rate, term_years) ==
    Bits(MonthlyFactor(annual_rate)) * 12 * Abs(term_years) <= MaxBits

(* The cost series proportional to the home value add up over the months. *)
CostBits(a) ==
    IF a.property_tax_rate = 0 /\ a.maintenance_pct = 0 /\ a.homeowners_insurance_pct = 0
    THEN 0 ELSE 4

(* The payment's divisor (1 + r)**n - 1 meets the standard deduction in one
   fraction, so it gets half of the bits. *)
FitsProjection(a) ==
    /\ Bits(MonthlyFactor(a.mortgage_rate)) * 12 * a.mortgage_term <= MaxBits \div 2
    /\ Bits(MonthlyFactor(a.mortgage_rate)) * 12 * Max(a.mortgage_term, Max(a.years, 0))
      + ( Bits(Root12(RAdd(One, Rat(a.home_appreciation, 100))))
        + Bits(Root12(RAdd(One, Rat(a.rent_appreciation, 100))))
        + Bits(Root12(RAdd(One, Rat(a.inflation, 100))))
        + Bits(MonthlyFactor(a.investment_return)) ) * 12 * Max(a.years, 0)
      + CostBits(a) * Max(a.years, 0)
      <= MaxBits

(***************************************************************************)
(* The inputs of update_plots the model draws: the values below, of which  *)
(* up to MaxMissing of the ten required ones are emptied or set to zero.   *)
(***************************************************************************)
MaxMissing == 1

DownPayments == {1, 10, 19}

PlotRates == {-2400, -1200, 1200}

SelectedMonths == {None, Num(1), Num(12), Num(13)}

PlotInputs ==
    { [home_price |-> Num(10), monthly_rent |-> Num(1), years |-> Num(years),
       down_payment |-> Num(down_payment), mortgage_rate |-> Num(mortgage_rate),
       home_appreciation |-> Num(3), rent_appreciation |-> Num(3),
       investment_return |-> Num(7), closing_costs |-> Num(1),
       mortgage_term |-> Num(mortgage_term), selected_month |-> selected_month] :
       years \in {-1} \cup 1..MaxYears, down_payment \in DownPayments,
       mortgage_rate \in PlotRates, mortgage_term \in 1..MaxTerm,
       selected_month \in SelectedMonths }

FitsPlot(i) == FitsMortgage(i.mortgage_rate[1], Max(i.mortgage_term[1], i.years[1]))

Without(i, missing, blank) ==
    [k \in DOMAIN i |-> IF k \in missing THEN blank ELSE i[k]]

(***************************************************************************)
(* The engine: one call after the other, each with inputs of its own.  The *)
(* clock stands still and the layout is not touched.                       *)
(***************************************************************************)
NoCall ==
    /\ fn = "none"
    /\ args = << >>
    /\ res = << >>

Init ==
    /\ NoCall
    /\ now = 0
    /\ prev = << >>
    /\ ui = << >>
    /\ queue = << >>

CallMortgageDetails ==
    /\ fn = "none"
    /\ \E loan_amount \in LoanAmounts, annual_rate \in AnnualRates, term_years \in -1..MaxTerm :
        /\ FitsMortgage(annual_rate, term_years)
        /\ fn' = "calculate_mortgage_details"
        /\ args' = [loan_amount |-> loan_amount, annual_rate |-> annual_rate,
                    term_years |-> term_years]
        /\ res' = calculate_mortgage_details(loan_amount, annual_rate, term_years)
        /\ UNCHANGED <<now, prev, ui, queue>>

CallBuyVsRent ==
    /\ fn = "none"
    /\ \E home_price \in HomePrices, monthly_rent \in MonthlyRents, years \in -1..MaxYears,
          down_payment_pct \in DownPaymentPcts, mortgage_rate \in MortgageRates,
          mortgage_term \in 0..MaxTerm, home_appreciation \in GrowthRates,
          rent_appreciation \in GrowthRates, investment_return \in InvestmentReturns,
          costs \in Costs :
        LET a == [home_price |-> home_price, monthly_rent |-> monthly_rent, years |-> years,
                  down_payment_pct |-> down_payment_pct, mortgage_rate |-> mortgage_rate,
                  mortgage_term |-> mortgage_term, home_appreciation |-> home_appreciation,
                  rent_appreciation |-> rent_appreciation,
                  investment_return |-> investment_return] @@ costs
        IN  /\ FitsProjection(a)
            /\ fn' = "calculate_buy_vs_rent"
            /\ args' = a
            /\ res' = buy_vs_rent_figure(a, now)
            /\ UNCHANGED <<now, prev, ui, queue>>

CallUpdatePlots ==
    /\ fn = "none"
    /\ \E i \in PlotInputs, missing \in SUBSET TenInputs, blank \in {None, Num(0)} :
        /\ Cardinality(missing) <= MaxMissing
        /\ FitsPlot(i)
        /\ fn' = "update_plots"
        /\ args' = Without(i, missing, blank)
        /\ res' = update_plots(Without(i, missing, blank))
    /\ UNCHANGED <<now, prev, ui, queue>>

(* The call is over: nothing of it is kept for the next one. *)
Return ==
    /\ fn # "none"
    /\ fn' = "none"
    /\ args' = << >>
    /\ res' = << >>
    /\ UNCHANGED <<now, prev, ui, queue>>

Next == CallMortgageDetails \/ CallBuyVsRent \/ CallUpdatePlots \/ Return

Spec == Init /\ [][Next]_vars

(***************************************************************************)
(* Vocabulary of the properties.                                           *)
(***************************************************************************)
IsMD == fn = "calculate_mortgage_details"

IsBVR == fn = "calculate_buy_vs_rent"

Returned == fn # "none" /\ res.outcome = "returned"

Periods == 0..(res.months - 1)

LaterPeriods == 1..(res.months - 1)

(* The inputs of the amortization are in their domain. *)
ValidAmortInputs ==
    \/ IsMD /\ args.loan_amount >= 0 /\ args.annual_rate >= 0 /\ args.term_years > 0
    \/ IsBVR /\ args.home_price >= 0 /\ args.down_payment_pct >= 0
             /\ args.down_payment_pct <= 100 /\ args.mortgage_rate >= 0
             /\ args.mortgage_term > 0 /\ args.years > 0

(* C1: for every valid input the balance series of both functions is
   non-negative at every period, non-increasing from period to period, and
   stays at zero once it has reached zero. *)
C1_BalanceClamped ==
    (ValidAmortInputs /\ Returned) =>
        /\ \A i \in Periods : RLe(Zero, At(res.balance, i))
        /\ \A i \in LaterPeriods :
              /\ RLe(At(res.balance, i), At(res.balance, i - 1))
              /\ At(res.balance, i - 1) = Zero => At(res.balance, i) = Zero

(* C2: at an annual rate of 0 with a positive term the computation completes,
   the monthly payment is loan_amount / n_payments and the cumulative interest
   is 0 at every period. *)
C2_ZeroRate ==
    /\ (IsMD /\ args.loan_amount >= 0 /\ args.annual_rate = 0 /\ args.term_years > 0) =>
          /\ Returned
          /\ res.monthly_payment = Rat(args.loan_amount, args.term_years * 12)
          /\ \A i \in Periods : At(res.interest_paid, i) = Zero
    /\ (IsBVR /\ ValidAmortInputs /\ args.mortgage_rate = 0) =>
          /\ Returned
          /\ res.monthly_payment = RDiv(res.loan_amount, RInt(args.mortgage_term * 12))
          /\ \A i \in Periods : At(res.interest_paid, i) = Zero

(* C3: calculate_mortgage_details fails with InvalidTermError, returning no
   schedule, whenever term_years <= 0 or annual_rate < 0. *)
C3_InvalidTermError ==
    (IsMD /\ (args.term_years <= 0 \/ args.annual_rate < 0)) =>
        res.outcome = "InvalidTermError"

(* C4: calculate_buy_vs_rent fails with InvalidInputError, computing no series,
   whenever home_price is not positive, a rate is negative, the horizon is not
   positive or the down payment exceeds the home price. *)
C4_InvalidInputError ==
    (IsBVR /\ ( \/ args.home_price <= 0
                \/ args.mortgage_rate < 0
                \/ args.years <= 0
                \/ args.down_payment_pct > 100 )) =>
        res.outcome = "InvalidInputError"

(* C5 as stated: at every period n of the schedule calculate_mortgage_details
   returns for valid inputs, interest_paid[n] + balance[n] equals
   loan_amount + principal_paid[n], and interest_paid[n] + principal_paid[n]
   equals n * monthly_payment. *)
C5_ReconciliationAsStated ==
    (IsMD /\ Returned /\ ValidAmortInputs) =>
        \A n \in Periods :
            /\ RAdd(At(res.interest_paid, n), At(res.balance, n))
                 = RAdd(RInt(args.loan_amount), At(res.principal_paid, n))
            /\ RAdd(At(res.interest_paid, n), At(res.principal_paid, n))
                 = RMul(RInt(n), res.monthly_payment)

(* C5 amended: at every period n of the schedule of
   calculate_mortgage_details, balance[n] + principal_paid[n] equals
   loan_amount, and interest_paid[n] + principal_paid[n] equals
   n * monthly_payment. *)
C5_Reconciliation ==
    (IsMD /\ Returned) =>
        \A n \in Periods :
            /\ RAdd(At(res.balance, n), At(res.principal_paid, n)) = RInt(args.loan_amount)
            /\ RAdd(At(res.interest_paid, n), At(res.principal_paid, n))
                 = RMul(RInt(n), res.monthly_payment)

(* A full schedule of a loan at a positive rate, with interest and principal
   both paid. *)
C5_Witness ==
    /\ IsMD /\ Returned
    /\ args.loan_amount > 0 /\ args.annual_rate > 0 /\ args.term_years >= 1
    /\ RLt(Zero, At(res.interest_paid, res.months - 1))
    /\ At(res.principal_paid, res.months - 1) = RInt(args.loan_amount)
    /\ At(res.balance, res.months - 1) = Zero

(* C6: when the horizon exceeds the mortgage term, every period after payoff
   leaves the balance and the cumulative interest of calculate_buy_vs_rent
   unchanged, the home value does not stop appreciating, and the cumulative
   interest is non-decreasing over the whole horizon. *)
C6_PostPayoffFrozen ==
    (IsBVR /\ Returned /\ ValidAmortInputs /\ args.years > args.mortgage_term) =>
        /\ \A i \in LaterPeriods :
              i > args.mortgage_term * 12 =>
                  /\ At(res.balance, i) = At(res.balance, i - 1)
                  /\ At(res.interest_paid, i) = At(res.interest_paid, i - 1)
        /\ \A i \in LaterPeriods :
              /\ RLe(At(res.interest_paid, i - 1), At(res.interest_paid, i))
              /\ RLe(At(res.home_values, i - 1), At(res.home_values, i))

(* The ownership outflow of period t minus the renting outflow of period t. *)
OwnershipOutflow(t) ==
    RAdd(res.monthly_payment,
    RAdd(At(res.pmi_payments, t),
    RAdd(At(res.property_tax, t),
    RAdd(At(res.homeowners_insurance, t),
    RAdd(At(res.maintenance, t),
    RAdd(At(res.utilities, t), At(res.hoa, t)))))))

RentingOutflow(t) == RAdd(At(res.monthly_rents, t), res.renters_insurance)

Contribution(t) == RSub(OwnershipOutflow(t), RentingOutflow(t))

MonthlyGrowth == RAdd(One, Rat(args.investment_return, 1200))

(* C7: investment_value[0] is initial_buy_costs - initial_rent_costs and, for
   every period i >= 1, investment_value[i] is investment_value[i-1] grown by
   investment_return / 12 plus the contribution of period i - 1 (ownership
   outflow minus renting outflow), added after the growth and never floored. *)
C7_InvestmentRecurrence ==
    (IsBVR /\ Returned) =>
        /\ At(res.investment_value, 0) = RSub(res.initial_buy_costs, res.initial_rent_costs)
        /\ \A i \in LaterPeriods :
              At(res.investment_value, i)
                = RAdd(RMul(At(res.investment_value, i - 1), MonthlyGrowth),
                       Contribution(i - 1))

(* A run with a positive return whose base and whose contributions are
   negative, and whose investment has moved. *)
C7_Witness ==
    /\ IsBVR /\ Returned
    /\ args.years >= 1 /\ args.investment_return > 0
    /\ RLt(At(res.investment_value, 0), Zero)
    /\ \E t \in Periods : RLt(Contribution(t), Zero)
    /\ At(res.investment_value, res.months - 1) # At(res.investment_value, 0)

(* C8 as stated: in every period t where balance[t] / home_value[t] <= 0.8,
   with home_value[t] the appreciated value of the home, pmi[t] is zero. *)
C8_PmiOffByHomeValue ==
    (IsBVR /\ Returned) =>
        \A t \in Periods :
            ( /\ At(res.home_values, t) # Zero
              /\ RLe(RDiv(At(res.balance, t), At(res.home_values, t)), Rat(8, 10)) )
            => At(res.pmi_payments, t) = Zero

(* C8 amended: in every period t where balance[t] / home_price <= 0.8, with
   home_price the purchase price, pmi[t] is zero. *)
C8_PmiOffByHomePrice ==
    (IsBVR /\ Returned) =>
        \A t \in Periods :
            ( /\ args.home_price # 0
              /\ RLe(RDiv(At(res.balance, t), RInt(args.home_price)), Rat(8, 10)) )
            => At(res.pmi_payments, t) = Zero

(* A loan with less than 20 percent down on an appreciating home: PMI is
   charged at first and is zero once the balance is at most 0.8 of the price,
   while the balance is still positive. *)
C8_Witness ==
    /\ IsBVR /\ Returned
    /\ args.down_payment_pct < 20 /\ args.pmi_rate > 0 /\ args.home_price > 0
    /\ args.home_appreciation > 0
    /\ RLt(Zero, At(res.pmi_payments, 0))
    /\ \E t \in Periods :
          /\ RLt(Zero, At(res.balance, t))
          /\ RLe(RDiv(At(res.balance, t), RInt(args.home_price)), Rat(8, 10))
          /\ At(res.pmi_payments, t) = Zero

(* C9: PMI switches off at most once: with down_payment_pct < 20, once pmi[t]
   is zero it is zero at every later period; with down_payment_pct >= 20 it is
   zero at every period. *)
C9_PmiOffOnce ==
    (IsBVR /\ Returned) =>
        /\ args.down_payment_pct < 20 =>
              \A t \in Periods : \A u \in Periods :
                  (t < u /\ At(res.pmi_payments, t) = Zero) => At(res.pmi_payments, u) = Zero
        /\ args.down_payment_pct >= 20 =>
              \A t \in Periods : At(res.pmi_payments, t) = Zero

(* PMI was charged, was switched off while the loan was still being repaid,
   and stayed off to the end of the horizon. *)
C9_Witness ==
    /\ IsBVR /\ Returned
    /\ args.down_payment_pct < 20 /\ args.mortgage_rate > 0
    /\ RLt(Zero, At(res.pmi_payments, 0))
    /\ \E t \in Periods :
          /\ t + 1 \in Periods
          /\ RLt(Zero, At(res.balance, t))
          /\ At(res.pmi_payments, t) = Zero
    /\ At(res.pmi_payments, res.months - 1) = Zero

(* Zero appreciation and return, and every cost, tax effect, PMI, deposit and
   fee zero. *)
ZeroCoupon ==
    /\ args.home_appreciation = 0 /\ args.investment_return = 0 /\ args.rent_appreciation = 0
    /\ args.inflation = 0 /\ args.pmi_rate = 0 /\ args.property_tax_rate = 0
    /\ args.marginal_tax_rate = 0 /\ args.other_itemized_deductions = 0
    /\ args.buying_closing_cost_pct = 0 /\ args.selling_closing_cost_pct = 0
    /\ args.maintenance_pct = 0 /\ args.homeowners_insurance_pct = 0
    /\ args.extra_utilities = 0 /\ args.hoa_fees = 0 /\ args.security_deposit_months = 0
    /\ args.rental_broker_fee_pct = 0 /\ args.renters_insurance_pct = 0

(* The closed form of the claim, with p mortgage payments and q rent payments
   made so far. *)
ClosedFormAsStated(p, q) ==
    RSub(RSub(RSub(RInt(args.home_price), res.loan_amount), RMul(RInt(p), res.monthly_payment)),
         RNeg(RMul(RInt(q), RInt(args.monthly_rent))))

(* C10 as stated: in the zero-coupon case, for valid inputs, advantage[t] equals
   (home_price - loan_amount - mortgage payments so far) - (- rent payments so
   far) at every period t, the payments so far counted up to period t either
   exclusively (t of them) or inclusively (t + 1 of them). *)
C10_ZeroCouponAsStated ==
    (IsBVR /\ Returned /\ ZeroCoupon /\ ValidAmortInputs /\ args.home_price > 0) =>
        \E dp \in 0..1 : \E dq \in 0..1 :
            \A t \in Periods : At(res.advantage, t) = ClosedFormAsStated(t + dp, t + dq)

(* C10 amended: in the zero-coupon case advantage[t] of the returned series
   equals (home_price - down_payment - balance[t] - t * monthly_payment)
   - (- (2t + 1) * monthly_rent) at every period t. *)
C10_ZeroCoupon ==
    (IsBVR /\ Returned /\ ZeroCoupon) =>
        \A t \in Periods :
            At(res.advantage, t)
              = RSub(RSub(RSub(RSub(RInt(args.home_price), res.down_payment),
                               At(res.balance, t)),
                          RMul(RInt(t), res.monthly_payment)),
                     RNeg(RMul(RInt(2 * t + 1), RInt(args.monthly_rent))))

(* A zero-coupon run over at least a year of a loan that is being repaid. *)
C10_Witness ==
    /\ IsBVR /\ Returned /\ ZeroCoupon
    /\ args.years >= 1 /\ args.mortgage_rate > 0 /\ args.home_price > 0
    /\ args.down_payment_pct < 100 /\ args.monthly_rent > 0
    /\ RLt(Zero, res.monthly_payment)
    /\ At(res.advantage, res.months - 1) # At(res.advantage, 0)

(***************************************************************************)
(* The same call twice.  calculate_buy_vs_rent is called, the clock may    *)
(* advance, and it is called again with the same arguments; prev keeps the *)
(* first call for the comparison (the program itself keeps nothing).       *)
(***************************************************************************)
MaxClock == 2

ClockArgs ==
    { a \in { [home_price |-> 10, monthly_rent |-> 1, years |-> years,
               down_payment_pct |-> down_payment_pct, mortgage_rate |-> mortgage_rate,
               mortgage_term |-> 1, home_appreciation |-> 0, rent_appreciation |-> 0,
               investment_return |-> investment_return] @@ costs :
               years \in -1..MaxYears, down_payment_pct \in DownPaymentPcts,
               mortgage_rate \in MortgageRates, investment_return \in InvestmentReturns,
               costs \in Costs } :
        FitsProjection(a) }

InitClock == Init

ClockTick ==
    /\ fn = "none"
    /\ now < MaxClock
    /\ now' = now + 1
    /\ UNCHANGED <<fn, args, res, prev, ui, queue>>

PlotFirst ==
    /\ fn = "none"
    /\ prev = << >>
    /\ \E a \in ClockArgs :
        /\ fn' = "calculate_buy_vs_rent"
        /\ args' = a
        /\ res' = buy_vs_rent_figure(a, now)
    /\ UNCHANGED <<now, prev, ui, queue>>

ReturnFirst ==
    /\ fn # "none"
    /\ prev = << >>
    /\ prev' = << [args |-> args, res |-> res] >>
    /\ fn' = "none"
    /\ args' = << >>
    /\ res' = << >>
    /\ UNCHANGED <<now, ui, queue>>

PlotAgain ==
    /\ fn = "none"
    /\ prev # << >>
    /\ fn' = "calculate_buy_vs_rent"
    /\ args' = prev[1].args
    /\ res' = buy_vs_rent_figure(prev[1].args, now)
    /\ UNCHANGED <<now, prev, ui, queue>>

ReturnAgain ==
    /\ fn # "none"
    /\ prev # << >>
    /\ fn' = "none"
    /\ args' = << >>
    /\ res' = << >>
    /\ prev' = << >>
    /\ UNCHANGED <<now, ui, queue>>

NextClock == ClockTick \/ PlotFirst \/ ReturnFirst \/ PlotAgain \/ ReturnAgain

SpecClock == InitClock /\ [][NextClock]_vars

SecondCall == IsBVR /\ prev # << >> /\ prev[1].args = args

(* C11: two calls of calculate_buy_vs_rent with identical inputs yield
   identical outputs, the time axis included: the result depends on nothing
   but the inputs, not on the clock and not on an earlier call. *)
C11_Deterministic ==
    (SecondCall /\ ValidAmortInputs) => res = prev[1].res

(***************************************************************************)
(* Properties of update_plots.                                             *)
(***************************************************************************)
IsPlots == fn = "update_plots"

MissingOrZero(v) == v = None \/ v = Num(0)

(* C12: update_plots returns the three empty figures, having called neither
   calculate_mortgage_details nor calculate_buy_vs_rent and without an
   error, exactly when at least one of its ten required inputs is missing
   or equal to zero; so a zero that is in the domain of an input (a down
   payment of 0, closing costs of 0, a rate of 0 percent) gives the empty
   result. *)
C12_EmptyOnMissing ==
    IsPlots =>
        /\ (res.outcome = "empty") <=> (\E k \in TenInputs : MissingOrZero(args[k]))
        /\ (res.outcome = "empty") => (res.called = {})

C12_Witness ==
    /\ IsPlots
    /\ args.down_payment = Num(0)
    /\ \A k \in TenInputs \ {"down_payment"} : ~MissingOrZero(args[k])
    /\ res.outcome = "empty"
    /\ res.called = {}

SharedPeriods == 0..(Min(args.years[1], args.mortgage_term[1]) * 12)

(* C14: the amortization inside calculate_buy_vs_rent and the one of
   calculate_mortgage_details are the same schedule: for the loan, rate and
   term update_plots passes to both (the down payment as
   down_payment / home_price * 100) the monthly payment is the same, and
   balance[i] and interest_paid[i] are equal for every i from 0 to
   min(years, mortgage_term) * 12. *)
C14_SameSchedule ==
    (IsPlots /\ res.outcome = "figures") =>
        /\ res.comparison.monthly_payment = res.mortgage_details.monthly_payment
        /\ \A i \in SharedPeriods :
              /\ At(res.comparison.balance, i) = At(res.mortgage_details.balance, i)
              /\ At(res.comparison.interest_paid, i) = At(res.mortgage_details.interest_paid, i)

C14_Witness ==
    /\ IsPlots
    /\ res.outcome = "figures"
    /\ args.years = Num(1)
    /\ args.mortgage_term = Num(2)
    /\ args.mortgage_rate = Num(1200)
    /\ RLt(Zero, At(res.comparison.balance, 12))
    /\ RLt(At(res.comparison.balance, 12), At(res.comparison.balance, 0))
    /\ RLt(Zero, At(res.mortgage_details.interest_paid, 12))

(***************************************************************************)
(* The term and the month of the layout.  The user picks a mortgage term   *)
(* (lines 544-554) and a month of the payment breakdown (lines 660-669);   *)
(* each change of a value triggers the callbacks that have it as Input,    *)
(* with the values the components hold at that moment, and the callbacks   *)
(* run in the order they were triggered.  The page load triggers both      *)
(* callbacks once.                                                         *)
(*                                                                         *)
(* The dropdown of the layout offers 15, 20, 25 and 30 years, of which 30  *)
(* is selected at first; the model offers 1..MaxTerm years with MaxTerm    *)
(* selected.  The other inputs of update_plots keep the values of          *)
(* BaseInputs, which stand for the initial values of the layout.           *)
(* month_options = n stands for the options with the values 0..n-1.        *)
(***************************************************************************)
MaxPending == 3

TermOptions == { Num(t) : t \in 1..MaxTerm }

BaseInputs ==
    [home_price |-> Num(10), monthly_rent |-> Num(1), years |-> Num(1),
     down_payment |-> Num(1), mortgage_rate |-> Num(1200), home_appreciation |-> Num(3),
     rent_appreciation |-> Num(3), investment_return |-> Num(7), closing_costs |-> Num(1)]

(* The months the user picks of the options offered: the first two and the last. *)
MonthChoices(month_options) ==
    { Num(m) : m \in {0, 1, month_options - 1} \cap 0..(month_options - 1) }

PlotsTriggered(mortgage_term, month) ==
    [callback |-> "update_plots", mortgage_term |-> mortgage_term, selected_month |-> month]

OptionsTriggered(mortgage_term) ==
    [callback |-> "update_month_options", mortgage_term |-> mortgage_term]

update_month_options(mortgage_term) ==
    IF ~truthy(mortgage_term) THEN 0 ELSE mortgage_term[1] * 12

InitMonths ==
    /\ NoCall
    /\ now = 0
    /\ prev = << >>
    /\ ui = [mortgage_term |-> Num(MaxTerm), month_options |-> 0, month |-> Num(1)]
    /\ queue = << OptionsTriggered(Num(MaxTerm)), PlotsTriggered(Num(MaxTerm), Num(1)) >>

SelectTerm ==
    /\ Len(queue) + 2 <= MaxPending
    /\ \E mortgage_term \in TermOptions \cup {None} :
        /\ mortgage_term # ui.mortgage_term
        /\ ui' = [ui EXCEPT !.mortgage_term = mortgage_term]
        /\ queue' = queue \o << OptionsTriggered(mortgage_term),
                                 PlotsTriggered(mortgage_term, ui.month) >>
    /\ UNCHANGED <<fn, args, res, now, prev>>

SelectMonth ==
    /\ Len(queue) + 1 <= MaxPending
    /\ \E month \in MonthChoices(ui.month_options) \cup {None} :
        /\ month # ui.month
        /\ ui' = [ui EXCEPT !.month = month]
        /\ queue' = Append(queue, PlotsTriggered(ui.mortgage_term, month))
    /\ UNCHANGED <<fn, args, res, now, prev>>

(* The callback sets the options only.  What the dropdown does with a value
   that is not among its new options is the library's: it keeps the value,
   or it clears it, which triggers update_plots. *)
RunUpdateMonthOptions ==
    /\ queue # << >>
    /\ Head(queue).callback = "update_month_options"
    /\ LET options == update_month_options(Head(queue).mortgage_term)
           stale == ui.month # None /\ ui.month[1] >= options
       IN  /\ fn' = "update_month_options"
           /\ args' = [mortgage_term |-> Head(queue).mortgage_term]
           /\ res' = [outcome |-> "returned", options |-> options]
           /\ \/ /\ ui' = [ui EXCEPT !.month_options = options]
                 /\ queue' = Tail(queue)
              \/ /\ stale
                 /\ ui' = [ui EXCEPT !.month_options = options, !.month = None]
                 /\ queue' = Append(Tail(queue), PlotsTriggered(ui.mortgage_term, None))
    /\ UNCHANGED <<now, prev>>

RunUpdatePlots ==
    /\ queue # << >>
    /\ Head(queue).callback = "update_plots"
    /\ LET i == BaseInputs @@ [mortgage_term |-> Head(queue).mortgage_term,
                               selected_month |-> Head(queue).selected_month]
       IN  /\ fn' = "update_plots"
           /\ args' = i
           /\ res' = update_plots(i)
    /\ queue' = Tail(queue)
    /\ UNCHANGED <<now, prev, ui>>

NextMonths == SelectTerm \/ SelectMonth \/ RunUpdateMonthOptions \/ RunUpdatePlots

SpecMonths == InitMonths /\ [][NextMonths]_vars

(* update_plots went as far as calculate_monthly_costs. *)
ReachedMonthlyCosts == IsPlots /\ "selected_month" \in DOMAIN res

(* C13: after any sequence of term and month selections the selected_month
   update_plots passes to calculate_monthly_costs is a valid index,
   0 <= selected_month <= mortgage_term * 12; a month chosen under a longer
   term and kept after the switch to a shorter one never makes the payment
   breakdown read outside mortgage_details['balance']. *)
C13_MonthInRange ==
    ReachedMonthlyCosts =>
        /\ 0 <= res.selected_month
        /\ res.selected_month <= args.mortgage_term[1] * 12
        /\ res.outcome # "IndexError"

(***************************************************************************)
(* The synchronized controls.  Every parameter of params has a text input  *)
(* and a slider, and create_sync_callback gives each pair a callback of    *)
(* its own (lines 677-698).  The user types a number into an input (or     *)
(* empties it) or moves a slider; the change triggers the pair's callback  *)
(* with the values both components hold at that moment, and the callbacks  *)
(* run in the order they were triggered.  prevent_initial_call keeps the   *)
(* page load from triggering them.  prev remembers, for every parameter,   *)
(* the value the user set last.                                            *)
(*                                                                         *)
(* The model follows the first MaxParams parameters with up to            *)
(* MaxTriggered callbacks waiting, and the values 1 and 2 stand for the    *)
(* numbers of the layout.                                                  *)
(***************************************************************************)
MaxParams == 2
MaxTriggered == 2

params ==
    << "home-price", "monthly-rent", "years", "down-payment", "mortgage-rate",
       "home-appreciation", "rent-appreciation", "investment-return", "closing-costs" >>

SyncParams == { params[k] : k \in 1..Min(MaxParams, Len(params)) }

SliderValues == {Num(1), Num(2)}

InputValues == SliderValues \cup {None}

InputId(param) == <<param, "input">>

SliderId(param) == <<param, "slider">>

(* A faulty variant of sync_values: the slider's value is returned whatever
   triggered the callback. *)
sync_values_from_slider(param, triggered_id, input_value, slider_value) ==
    [input |-> slider_value, slider |-> slider_value]

sync_values(param, triggered_id, input_value, slider_value) ==
    IF triggered_id = InputId(param)
    THEN [input |-> input_value, slider |-> input_value]
    ELSE [input |-> slider_value, slider |-> slider_value]

SyncTriggered(param, triggered_id, input_value, slider_value) ==
    [callback |-> "sync_values", param |-> param, triggered_id |-> triggered_id,
     input_value |-> input_value, slider_value |-> slider_value]

InitSync ==
    /\ NoCall
    /\ now = 0
    /\ prev = [param \in SyncParams |-> Num(1)]
    /\ ui = [input |-> [param \in SyncParams |-> Num(1)],
             slider |-> [param \in SyncParams |-> Num(1)]]
    /\ queue = << >>

EditInput ==
    /\ Len(queue) < MaxTriggered
    /\ \E param \in SyncParams, value \in InputValues :
        /\ value # ui.input[param]
        /\ ui' = [ui EXCEPT !.input[param] = value]
        /\ prev' = [prev EXCEPT ![param] = value]
        /\ queue' = Append(queue, SyncTriggered(param, InputId(param), value, ui.slider[param]))
    /\ UNCHANGED <<fn, args, res, now>>

MoveSlider ==
    /\ Len(queue) < MaxTriggered
    /\ \E param \in SyncParams, value \in SliderValues :
        /\ value # ui.slider[param]
        /\ ui' = [ui EXCEPT !.slider[param] = value]
        /\ prev' = [prev EXCEPT ![param] = value]
        /\ queue' = Append(queue, SyncTriggered(param, SliderId(param), ui.input[param], value))
    /\ UNCHANGED <<fn, args, res, now>>

RunSyncValues ==
    /\ queue # << >>
    /\ LET t == Head(queue)
           out == sync_values(t.param, t.triggered_id, t.input_value, t.slider_value)
       IN  /\ fn' = "sync_values"
           /\ args' = t
           /\ res' = [outcome |-> "returned"] @@ out
           /\ ui' = [ui EXCEPT !.input[t.param] = out.input, !.slider[t.param] = out.slider]
    /\ queue' = Tail(queue)
    /\ UNCHANGED <<now, prev>>

NextSync == EditInput \/ MoveSlider \/ RunSyncValues

SpecSync == InitSync /\ [][NextSync]_vars

IsSync == fn = "sync_values"

TriggeringValue ==
    IF args.triggered_id = InputId(args.param) THEN args.input_value ELSE args.slider_value

Pending(param) == \E k \in 1..Len(queue) : queue[k].param = param

(* C15: every execution of sync_values leaves the text input and the slider
   of its parameter with the same value, the one of the component that
   triggered it (the input's if the input triggered it, the slider's
   otherwise); so after any sequence of edits and slider moves, once the
   callbacks have run, the two controls agree on the value changed last. *)
C15_Synchronized ==
    /\ IsSync => /\ res.input = TriggeringValue
                 /\ res.slider = TriggeringValue
    /\ (IsSync /\ ~Pending(args.param)) =>
            /\ ui.input[args.param] = TriggeringValue
            /\ ui.slider[args.param] = TriggeringValue
    /\ \A param \in SyncParams :
            ~Pending(param) => /\ ui.input[param] = ui.slider[param]
                               /\ ui.input[param] = prev[param]

C15_Witness ==
    /\ IsSync
    /\ args.triggered_id = InputId(args.param)
    /\ args.input_value # args.slider_value
    /\ ~Pending(args.param)
    /\ ui.slider[args.param] = args.input_value
    /\ ui.input[args.param] = args.input_value

====
